---- MODULE Spec2Model ----
(***************************************************************************)
(* A model of the tool handlers of the Cosmos DB MCP server                *)
(* (abhirockzz/mcp_cosmosdb_go, package tools).  Every tool invocation is  *)
(* a small process: it validates its input, resolves a client and then     *)
(* issues its backend calls one at a time; the backend calls are the only  *)
(* suspension points, so each one is a step of its own.  The remote        *)
(* database is the environment: a list of databases, of containers and of  *)
(* items, with the status codes the service answers with.                  *)
(***************************************************************************)
EXTENDS Integers, Sequences, FiniteSets, TLC

VARIABLES
    calls,       \* slot -> the invocation running in it
    databases,   \* backend: <<[name, by]>> in creation order
    containers,  \* backend: <<[db, name, path, tp, by]>> in creation order
    items,       \* backend: <<[db, cont, pk, id, val, by]>> in creation order
    nextId,      \* the number of invocations started so far
    server       \* the server process: where main is, its environment, its listener

vars == <<calls, databases, containers, items, nextId, server>>

----------------------------------------------------------------------------
(* Bounds of the model *)

MaxCalls == 2          \* invocations in one behaviour
MaxItems == 2          \* length of the hand-written item arrays of a batch
MaxPages == 3          \* pages a pager delivers a result in

(* Program constants *)

MaxBatchItems == 100   \* "batch exceeds maximum of 100 items"

----------------------------------------------------------------------------
(* Values *)

RECURSIVE SeqsUpTo(_, _)
SeqsUpTo(S, n) ==
    IF n = 0 THEN {<<>>}
    ELSE LET shorter == SeqsUpTo(S, n - 1)
         IN  shorter \cup {Append(s, x) : s \in {t \in shorter : Len(t) = n - 1}, x \in S}

Range(s) == {s[i] : i \in 1..Len(s)}

(* The text of an item payload.  kind "empty" is the empty string, "garbage" *)
(* is text that is not JSON, "doc" is a JSON object whose id property is id  *)
(* (id = <<>> : the object has no usable id).                                *)
(* An item id is a string, written as a sequence of tokens; <<>> is "".      *)
NoId        == <<>>
EmptyText   == [kind |-> "empty", id |-> NoId, val |-> ""]
GarbageText == [kind |-> "garbage", id |-> NoId, val |-> ""]
Doc(id, val) == [kind |-> "doc", id |-> id, val |-> val]

(* generateItemsArray of the tests: count documents with distinct ids *)
generateItemsArray(count) == [i \in 1..count |-> Doc(<<"gen_item_", i - 1>>, "v1")]

(* *int32 of CreateContainerToolInput.Throughput *)
NoThroughput == [set |-> FALSE, v |-> 0]
Throughput(v) == [set |-> TRUE, v |-> v]

(* A backend error: an azcore.ResponseError with its status, or another error *)
NoCause == [isResponse |-> FALSE, status |-> 0, code |-> ""]
ResponseError(status, code) == [isResponse |-> TRUE, status |-> status, code |-> code]
OtherError(text) == [isResponse |-> FALSE, status |-> 0, code |-> text]
CtxCanceled == OtherError("context canceled")

NotFound   == ResponseError(404, "NotFound")
BadRequest == ResponseError(400, "BadRequest")
Forbidden  == ResponseError(403, "Forbidden")
Conflict   == ResponseError(409, "Conflict")

(* What the service may answer whatever its state *)
Failures == {Forbidden, OtherError("connection reset")}

(* A Go error: the message the handler wrote and the error it wraps *)
NoErr == [msg |-> "", cause |-> NoCause]
Error(msg) == [msg |-> msg, cause |-> NoCause]
Wrap(msg, cause) == [msg |-> msg, cause |-> cause]

(* map[string]any of the throughput object; nil is the nil map *)
NilThroughputInfo ==
    [nil |-> TRUE, keys |-> {}, type |-> "", ru_per_second |-> 0,
     max_ru_per_second |-> 0, message |-> <<>>]

(* The zero value of a tool result *)
ZeroResult ==
    [account |-> "", database |-> "", container |-> "", message |-> <<>>,
     itemsCreated |-> 0, item |-> EmptyText, list |-> <<>>,
     metadata |-> FALSE, throughput |-> NilThroughputInfo]

(* Tool inputs: one record shape for the nine tools, a tool reads its own fields *)
ZeroInput ==
    [account |-> "", useEmulator |-> FALSE, emulatorEndpoint |-> "",
     database |-> "", container |-> "", partitionKeyPath |-> "",
     throughput |-> NoThroughput, partitionKey |-> "", item |-> EmptyText,
     itemID |-> NoId, query |-> "", items |-> <<>>]

Accounts      == {"", "acct"}
DatabaseNames == {"", "db", "db2"}        \* "db" exists from the start
ContainerNames == {"", "cont", "cont2"}   \* "cont" of "db" exists from the start
ItemDatabases == {"", "db"}
ItemContainers == {"", "cont", "cont2"}
PartitionKeyPaths == {"", "/id"}
Throughputs   == {NoThroughput, Throughput(400)}
PartitionKeys == {"", "pk1", "pk2"}
ItemIDs       == {NoId, <<"i1">>, <<"i2">>}
Queries       == {"", "SELECT * FROM c", "SELECT * FROM c WHERE c.id = 'i1'"}
ItemTexts     ==
    {EmptyText, GarbageText, Doc(NoId, "v1"), Doc(<<"i1">>, "v2"), Doc(<<"i2">>, "v1")}
BatchTexts    == {Doc(NoId, "v1"), Doc(<<"i1">>, "v2"), Doc(<<"i2">>, "v1")}
ItemArrays    ==
    SeqsUpTo(BatchTexts, MaxItems)
        \cup {<<GarbageText>>, <<Doc(<<"i2">>, "v1"), GarbageText>>}
        \cup {generateItemsArray(MaxBatchItems), generateItemsArray(MaxBatchItems + 1)}

ConnectionConfigs ==
    {[ZeroInput EXCEPT !.account = a, !.useEmulator = e] : a \in Accounts, e \in BOOLEAN}

(* The configurations with and without an endpoint override, as            *)
(* list_databases is sent them                                              *)
EmulatorEndpoints == {"", "https://localhost:9000"}
EndpointConfigs ==
    {[cfg EXCEPT !.emulatorEndpoint = e] : cfg \in ConnectionConfigs, e \in EmulatorEndpoints}

(* The values of COSMOSDB_ACCOUNT_KEY in the environment of the server *)
AccountKeys == {"", "secret"}

----------------------------------------------------------------------------
(* The invocation in a slot *)

NoClient == [endpoint |-> <<>>, credential |-> ""]

(* azcosmos.PartitionKey: the tuple of its values, empty for PartitionKey{} *)
EmptyPartitionKey == <<>>
NewPartitionKeyString(value) == <<value>>

(* What a query pager was made with *)
NoPager == [query |-> "", partitionKey |-> EmptyPartitionKey]

(* throughputResp, throughputErr of read_container_metadata *)
ThroughputResponse(err, manual, autoscale) ==
    [err |-> err, manual |-> manual, autoscale |-> autoscale]

IdleCall ==
    [pc |-> "idle", id |-> 0, tool |-> "", input |-> ZeroInput, err |-> NoErr,
     result |-> ZeroResult, client |-> NoClient, resolves |-> 0, bcalls |-> 0,
     cancelled |-> FALSE, fetched |-> 0, acc |-> <<>>, pending |-> <<>>,
     props |-> "", throughputResp |-> ThroughputResponse(NoCause, NoThroughput, NoThroughput),
     accountKey |-> "", pager |-> NoPager]

(* The environment main reads, and the server process: pc is where main   *)
(* is, addr the address its HTTP listener was given (none: the empty one) *)
Environment(mode, serverPort, port) ==
    [COSMOSDB_MCP_SERVER_MODE |-> mode, SERVER_PORT |-> serverPort, PORT |-> port]

NoAddr == <<>>

Process(pc, env, addr) == [pc |-> pc, env |-> env, addr |-> addr]

(* The server the handlers of a specification run in: on stdio, started in *)
(* an environment that sets none of the variables of main                  *)
StdioServer == Process("server.Run", Environment("", "", ""), NoAddr)

InitServed(slots, servers) ==
    /\ server \in servers
    /\ calls = [c \in slots |-> IdleCall]
    /\ databases = <<[name |-> "db", by |-> 0]>>
    /\ containers = <<[db |-> "db", name |-> "cont", path |-> "/id",
                       tp |-> NoThroughput, by |-> 0]>>
    /\ items \in {<<>>,
                  <<[db |-> "db", cont |-> "cont", pk |-> "pk1", id |-> <<"i1">>,
                     val |-> "v1", by |-> 0]>>}
    /\ nextId = 0

InitWith(slots) == InitServed(slots, {StdioServer})

Init == InitWith({1})

----------------------------------------------------------------------------
(* Connection resolution *)

DefaultEmulatorEndpoint == <<"https://localhost:8081">>

(* Validate asking for the account in either mode *)
ValidateAccountAlways(config) ==
    IF config.account = "" THEN "account name is required" ELSE ""

(* ConnectionConfig.Validate *)
Validate(config) ==
    IF ~config.useEmulator /\ config.account = "" THEN "account name is required" ELSE ""

(* ConnectionConfig.GetEndpoint *)
GetEndpoint(config) ==
    IF config.useEmulator
    THEN IF config.emulatorEndpoint # "" THEN <<config.emulatorEndpoint>>
         ELSE DefaultEmulatorEndpoint
    ELSE <<"https://", config.account, ".documents.azure.com:443/">>

(* CosmosDBServiceClientRetriever.Get with the endpoint built without the   *)
(* scheme of the service                                                    *)
GetPlainEndpoint(accountName, accountKey) ==
    LET endpoint == <<accountName, ".documents.azure.com">>
    IN  IF accountKey = ""
        THEN {[err |-> NoErr, accountKey |-> accountKey,
               client |-> [endpoint |-> endpoint, credential |-> "identity"]]}
        ELSE {[err |-> NoErr, accountKey |-> accountKey,
               client |-> [endpoint |-> endpoint, credential |-> "key"]]}

(* CosmosDBServiceClientRetriever.Get trying the identity of the            *)
(* environment first and the key when there is none                         *)
GetIdentityFirst(accountName, accountKey) ==
    LET endpoint == <<"https://", accountName, ".documents.azure.com:443/">>
    IN  {[err |-> NoErr, accountKey |-> accountKey,
          client |-> [endpoint |-> endpoint, credential |-> "identity"]],
         [err |-> IF accountKey = "" THEN Error("error creating credential") ELSE NoErr,
          accountKey |-> accountKey,
          client |-> IF accountKey = "" THEN NoClient
                     ELSE [endpoint |-> endpoint, credential |-> "key"]]}

(* CosmosDBServiceClientRetriever.Get: the outcomes of building a client for *)
(* an account when os.Getenv("COSMOSDB_ACCOUNT_KEY") is accountKey, over the *)
(* failures of the credential and client constructors.                       *)
Get(accountName, accountKey) ==
    LET endpoint == <<"https://", accountName, ".documents.azure.com:443/">>
    IN  IF accountKey = ""
        THEN {[err |-> NoErr, accountKey |-> accountKey,
               client |-> [endpoint |-> endpoint, credential |-> "identity"]],
              [err |-> Error("error creating credential"), accountKey |-> accountKey,
               client |-> NoClient],
              [err |-> Error("error creating Cosmos client"), accountKey |-> accountKey,
               client |-> NoClient]}
        ELSE {[err |-> NoErr, accountKey |-> accountKey,
               client |-> [endpoint |-> endpoint, credential |-> "key"]],
              [err |-> Error("error creating key credential"), accountKey |-> accountKey,
               client |-> NoClient],
              [err |-> Error("error creating Cosmos client"), accountKey |-> accountKey,
               client |-> NoClient]}

(* Get under the values the environment may hold *)
ServiceClientOutcomes(accountName) ==
    UNION {Get(accountName, accountKey) : accountKey \in AccountKeys}

(* GetCosmosClientFunc keeping the client it made and handing it to the  *)
(* invocations that come while it is held                                *)
GetCosmosClientFuncShared(accountName) ==
    LET held == {calls[d].client : d \in {e \in DOMAIN calls : calls[e].client # NoClient}}
    IN  IF held # {}
        THEN {[err |-> NoErr, accountKey |-> "", client |-> h] : h \in held}
        ELSE ServiceClientOutcomes(accountName)

(* GetCosmosClientFunc, the package variable the handlers of container.go and *)
(* query.go call with the account name                                        *)
GetCosmosClientFunc(accountName) == ServiceClientOutcomes(accountName)

(* ConnectionConfig.GetClient *)
GetClient(config) ==
    IF config.useEmulator
    THEN {[err |-> NoErr, accountKey |-> "",
           client |-> [endpoint |-> GetEndpoint(config), credential |-> "emulator key"]],
          [err |-> Error("error creating Cosmos client"), accountKey |-> "",
           client |-> NoClient]}
    ELSE ServiceClientOutcomes(config.account)

----------------------------------------------------------------------------
(* Required-field checks of the handlers, in the order of the code: the     *)
(* message of the first check that fails, "" when all pass.                 *)

ListDatabasesValidate(input) == Validate(input)

CreateDatabaseValidate(input) ==
    IF Validate(input) # "" THEN Validate(input)
    ELSE IF input.database = "" THEN "database name missing"
    ELSE ""

ListContainersValidate(input) ==
    IF input.account = "" THEN "cosmos db account name missing"
    ELSE IF input.database = "" THEN "cosmos db database name missing"
    ELSE ""

ReadContainerMetadataValidate(input) ==
    IF input.account = "" THEN "cosmos db account name missing"
    ELSE IF input.database = "" THEN "cosmos db database name missing"
    ELSE IF input.container = "" THEN "container name missing"
    ELSE ""

CreateContainerValidate(input) ==
    IF input.account = "" THEN "cosmos db account name missing"
    ELSE IF input.database = "" THEN "cosmos db database name missing"
    ELSE IF input.container = "" THEN "container name missing"
    ELSE IF input.partitionKeyPath = "" THEN "partition key path missing"
    ELSE ""

(* AddItemToContainerValidate without its last check *)
AddItemToContainerValidateNoItemCheck(input) ==
    IF input.account = "" THEN "cosmos db account name missing"
    ELSE IF input.database = "" THEN "cosmos db database name missing"
    ELSE IF input.container = "" THEN "container name missing"
    ELSE IF input.partitionKey = "" THEN "value for partition key missing"
    ELSE ""

AddItemToContainerValidate(input) ==
    IF input.account = "" THEN "cosmos db account name missing"
    ELSE IF input.database = "" THEN "cosmos db database name missing"
    ELSE IF input.container = "" THEN "container name missing"
    ELSE IF input.partitionKey = "" THEN "value for partition key missing"
    ELSE IF input.item = EmptyText THEN "item JSON missing"
    ELSE ""

(* ReadItemValidate with its last two checks exchanged *)
ReadItemValidateKeyFirst(input) ==
    IF input.account = "" THEN "cosmos db account name missing"
    ELSE IF input.database = "" THEN "database name missing"
    ELSE IF input.container = "" THEN "container name missing"
    ELSE IF input.partitionKey = "" THEN "partition key missing"
    ELSE IF input.itemID = NoId THEN "item ID missing"
    ELSE ""

ReadItemValidate(input) ==
    IF input.account = "" THEN "cosmos db account name missing"
    ELSE IF input.database = "" THEN "database name missing"
    ELSE IF input.container = "" THEN "container name missing"
    ELSE IF input.itemID = NoId THEN "item ID missing"
    ELSE IF input.partitionKey = "" THEN "partition key missing"
    ELSE ""

ExecuteQueryValidate(input) ==
    IF input.account = "" THEN "cosmos db account name missing"
    ELSE IF input.database = "" THEN "database name missing"
    ELSE IF input.container = "" THEN "container name missing"
    ELSE IF input.query = "" THEN "query string missing"
    ELSE ""

(* BatchCreateItemsValidate refusing a batch of the maximal size *)
BatchCreateItemsValidateBelowMax(input) ==
    IF Validate(input) # "" THEN Validate(input)
    ELSE IF input.database = "" THEN "cosmos db database name missing"
    ELSE IF input.container = "" THEN "container name missing"
    ELSE IF input.partitionKey = "" THEN "partition key value missing"
    ELSE IF Len(input.items) = 0 THEN "items array is empty"
    ELSE IF Len(input.items) >= MaxBatchItems THEN "batch exceeds maximum of 100 items"
    ELSE ""

BatchCreateItemsValidate(input) ==
    IF Validate(input) # "" THEN Validate(input)
    ELSE IF input.database = "" THEN "cosmos db database name missing"
    ELSE IF input.container = "" THEN "container name missing"
    ELSE IF input.partitionKey = "" THEN "partition key value missing"
    ELSE IF Len(input.items) = 0 THEN "items array is empty"
    ELSE IF Len(input.items) > MaxBatchItems THEN "batch exceeds maximum of 100 items"
    ELSE ""

----------------------------------------------------------------------------
(* The remote service *)

DbExists(db) == \E i \in 1..Len(databases) : databases[i].name = db

ContExists(db, cont) ==
    \E i \in 1..Len(containers) : containers[i].db = db /\ containers[i].name = cont

ContainerOf(db, cont) ==
    CHOOSE r \in Range(containers) : r.db = db /\ r.name = cont

Stored(db, cont, pk) ==
    SelectSeq(items, LAMBDA r : r.db = db /\ r.cont = cont /\ r.pk = pk)

StoredIds(db, cont, pk) == {r.id : r \in Range(Stored(db, cont, pk))}

(* A document the service accepts: JSON with a non-empty id *)
WellFormed(text) == text.kind = "doc" /\ text.id # NoId

StoredItem(db, cont, pk, text, by) ==
    [db |-> db, cont |-> cont, pk |-> pk, id |-> text.id, val |-> text.val, by |-> by]

TextOf(r) == Doc(r.id, r.val)

(* The outcome of a call that takes the invocation's context: a cancelled   *)
(* context aborts it, the service may fail whatever its state, and else the *)
(* state decides.                                                            *)
Outcomes(cancelled, decided) ==
    IF cancelled THEN {CtxCanceled} ELSE Failures \cup {decided}

----------------------------------------------------------------------------
(* Steps shared by the handlers *)

(* return nil, result, nil: the client handle and the pager end with the call *)
Done(call, result) ==
    [call EXCEPT !.pc = "done", !.err = NoErr, !.result = result, !.client = NoClient,
                 !.acc = <<>>, !.pending = <<>>, !.props = ""]

(* Fail handing back what the pager had collected *)
FailKeepsCollected(call, err) ==
    [call EXCEPT !.pc = "done", !.err = err,
                 !.result = [ZeroResult EXCEPT !.list = call.acc], !.client = NoClient,
                 !.acc = <<>>, !.pending = <<>>, !.props = ""]

(* Fail handing back a result with the message of the error *)
FailWithMessage(call, err) ==
    [call EXCEPT !.pc = "done", !.err = err,
                 !.result = [ZeroResult EXCEPT !.message = <<err.msg>>],
                 !.client = NoClient, !.acc = <<>>, !.pending = <<>>, !.props = ""]

(* return nil, <Tool>Result{}, err *)
Fail(call, err) ==
    [call EXCEPT !.pc = "done", !.err = err, !.result = ZeroResult, !.client = NoClient,
                 !.acc = <<>>, !.pending = <<>>, !.props = ""]

NewCall(tool, input) ==
    [IdleCall EXCEPT !.id = nextId + 1, !.tool = tool, !.input = input]

(* The head of a handler: the required-field checks (verr is their verdict), *)
(* then the client resolution (resolved is the set of its outcomes), then   *)
(* what the handler prepares locally for its first backend call (lerr is    *)
(* the error of that, NoErr when there is none); the handler then waits in  *)
(* pc next for its first backend call.                                      *)
BeginPrepared(c, tool, input, verr, resolved, lerr, next, pager) ==
    /\ calls[c].pc = "idle"
    /\ nextId < MaxCalls
    /\ nextId' = nextId + 1
    /\ UNCHANGED <<databases, containers, items, server>>
    /\ IF verr # ""
       THEN calls' = [calls EXCEPT ![c] = Fail(NewCall(tool, input), Error(verr))]
       ELSE \E r \in resolved :
                LET call == [NewCall(tool, input) EXCEPT !.resolves = 1,
                                                         !.accountKey = r.accountKey]
                IN  calls' = [calls EXCEPT ![c] =
                                 IF r.err # NoErr THEN Fail(call, r.err)
                                 ELSE IF lerr # NoErr THEN Fail(call, lerr)
                                 ELSE [call EXCEPT !.client = r.client, !.pc = next,
                                                   !.pager = pager]]

BeginThen(c, tool, input, verr, resolved, lerr, next) ==
    BeginPrepared(c, tool, input, verr, resolved, lerr, next, NoPager)

Begin(c, tool, input, verr, resolved, next) ==
    BeginThen(c, tool, input, verr, resolved, NoErr, next)

(* Page putting the page in front of what was collected *)
PageInFront(call, all, k) ==
    LET src == IF call.fetched = 0 THEN all ELSE call.pending
    IN  [call EXCEPT !.fetched = @ + 1, !.bcalls = @ + 1,
                     !.acc = SubSeq(src, 1, k) \o @,
                     !.pending = SubSeq(src, k + 1, Len(src))]

(* One NextPage of a pager over the list all, delivering k items; the loop  *)
(* ends with the page after which More() is false.                          *)
Page(call, all, k) ==
    LET src == IF call.fetched = 0 THEN all ELSE call.pending
    IN  [call EXCEPT !.fetched = @ + 1, !.bcalls = @ + 1,
                     !.acc = @ \o SubSeq(src, 1, k),
                     !.pending = SubSeq(src, k + 1, Len(src))]

(* The sizes the next page may have: the service cuts a result into at most *)
(* MaxPages pages, so the last of them takes what is left.                  *)
PageSizes(call, all) ==
    LET src == IF call.fetched = 0 THEN all ELSE call.pending
    IN  IF src = <<>> THEN {0}
        ELSE IF call.fetched + 1 >= MaxPages THEN {Len(src)}
        ELSE {k \in 1..Len(src) : k <= MaxPages \/ k = Len(src)}

----------------------------------------------------------------------------
(* list_databases *)

ListDatabasesInputs == EndpointConfigs

ListDatabasesToolHandler(c) ==
    \E input \in ListDatabasesInputs :
        Begin(c, "list_databases", input, ListDatabasesValidate(input),
              GetClient(input), "QueryDatabases.NextPage")

(* queryPager.NextPage(context.Background()): the context of the invocation *)
(* is not the one passed                                                    *)
ListDatabasesNextPage(c) ==
    LET call == calls[c]
        all == [i \in 1..Len(databases) |-> databases[i].name]
    IN  /\ call.pc = "QueryDatabases.NextPage"
        /\ UNCHANGED <<databases, containers, items, nextId, server>>
        /\ \/ \E f \in Failures :
                 calls' = [calls EXCEPT ![c] =
                              Fail([call EXCEPT !.bcalls = @ + 1], Wrap("", f))]
           \/ \E k \in PageSizes(call, all) :
                 LET after == Page(call, all, k)
                 IN  calls' = [calls EXCEPT ![c] =
                                  IF after.pending # <<>> THEN after
                                  ELSE Done(after, [ZeroResult EXCEPT
                                                      !.account = call.input.account,
                                                      !.list = after.acc])]

----------------------------------------------------------------------------
(* create_database *)

CreateDatabaseInputs ==
    {[cfg EXCEPT !.database = d] : cfg \in ConnectionConfigs, d \in DatabaseNames}

CreateDatabaseToolHandler(c) ==
    \E input \in CreateDatabaseInputs :
        Begin(c, "create_database", input, CreateDatabaseValidate(input),
              GetClient(input), "CreateDatabase")

(* CreateDatabaseReturn naming the emulator as the account of its result *)
CreateDatabaseReturnNamesEndpoint(c) ==
    LET call == calls[c]
        input == call.input
        decided == IF DbExists(input.database) THEN Conflict ELSE NoCause
    IN  /\ call.pc = "CreateDatabase"
        /\ UNCHANGED <<containers, items, nextId, server>>
        /\ \E out \in Outcomes(call.cancelled, decided) :
              IF out # NoCause
              THEN /\ calls' = [calls EXCEPT ![c] =
                                   Fail([call EXCEPT !.bcalls = @ + 1],
                                        Wrap("error creating database", out))]
                   /\ UNCHANGED databases
              ELSE /\ databases' = Append(databases, [name |-> input.database, by |-> call.id])
                   /\ calls' = [calls EXCEPT ![c] =
                                   Done([call EXCEPT !.bcalls = @ + 1],
                                        [ZeroResult EXCEPT
                                           !.account = IF input.useEmulator THEN "emulator"
                                                        ELSE input.account,
                                           !.database = input.database,
                                           !.message = <<"Database '", input.database,
                                                         "' created successfully">>])]

CreateDatabaseReturn(c) ==
    LET call == calls[c]
        input == call.input
        decided == IF DbExists(input.database) THEN Conflict ELSE NoCause
    IN  /\ call.pc = "CreateDatabase"
        /\ UNCHANGED <<containers, items, nextId, server>>
        /\ \E out \in Outcomes(call.cancelled, decided) :
              IF out # NoCause
              THEN /\ calls' = [calls EXCEPT ![c] =
                                   Fail([call EXCEPT !.bcalls = @ + 1],
                                        Wrap("error creating database", out))]
                   /\ UNCHANGED databases
              ELSE /\ databases' = Append(databases, [name |-> input.database, by |-> call.id])
                   /\ calls' = [calls EXCEPT ![c] =
                                   Done([call EXCEPT !.bcalls = @ + 1],
                                        [ZeroResult EXCEPT
                                           !.account = input.account,
                                           !.database = input.database,
                                           !.message = <<"Database '", input.database,
                                                         "' created successfully">>])]

----------------------------------------------------------------------------
(* list_containers *)

ListContainersInputs ==
    {[cfg EXCEPT !.database = d] : cfg \in ConnectionConfigs, d \in DatabaseNames}

ListContainersToolHandler(c) ==
    \E input \in ListContainersInputs :
        Begin(c, "list_containers", input, ListContainersValidate(input),
              GetCosmosClientFunc(input.account), "QueryContainers.NextPage")

ListContainersNextPage(c) ==
    LET call == calls[c]
        input == call.input
        inDb == SelectSeq(containers, LAMBDA r : r.db = input.database)
        all == [i \in 1..Len(inDb) |-> inDb[i].name]
        decided == IF DbExists(input.database) THEN NoCause ELSE NotFound
    IN  /\ call.pc = "QueryContainers.NextPage"
        /\ UNCHANGED <<databases, containers, items, nextId, server>>
        /\ \E out \in Outcomes(call.cancelled, decided) :
              IF out # NoCause
              THEN calls' = [calls EXCEPT ![c] =
                                Fail([call EXCEPT !.bcalls = @ + 1], Wrap("", out))]
              ELSE \E k \in PageSizes(call, all) :
                     LET after == Page(call, all, k)
                     IN  calls' = [calls EXCEPT ![c] =
                                      IF after.pending # <<>> THEN after
                                      ELSE Done(after, [ZeroResult EXCEPT
                                                          !.account = input.account,
                                                          !.database = input.database,
                                                          !.list = after.acc])]

----------------------------------------------------------------------------
(* read_container_metadata *)

ReadContainerMetadataInputs ==
    {[cfg EXCEPT !.database = d, !.container = n] :
        cfg \in ConnectionConfigs, d \in DatabaseNames, n \in ContainerNames}

ReadContainerMetadataToolHandler(c) ==
    \E input \in ReadContainerMetadataInputs :
        Begin(c, "read_container_metadata", input, ReadContainerMetadataValidate(input),
              GetCosmosClientFunc(input.account), "Container.Read")

(* containerClient.Read(ctx, nil) *)
ReadContainerMetadataRead(c) ==
    LET call == calls[c]
        input == call.input
        decided == IF ContExists(input.database, input.container) THEN NoCause ELSE NotFound
    IN  /\ call.pc = "Container.Read"
        /\ UNCHANGED <<databases, containers, items, nextId, server>>
        /\ \E out \in Outcomes(call.cancelled, decided) :
              calls' = [calls EXCEPT ![c] =
                           IF out # NoCause
                           THEN Fail([call EXCEPT !.bcalls = @ + 1], Wrap("", out))
                           ELSE [call EXCEPT !.bcalls = @ + 1, !.props = input.container,
                                             !.pc = "Container.ReadThroughput"]]

(* What containerClient.ReadThroughput answers: an error, or the throughput *)
(* properties with their manual value and autoscale maximum, each present   *)
(* or not.  A container with dedicated manual throughput answers with it and one     *)
(* without answers 404; the emulator answers 400; a container may have been *)
(* given autoscale throughput, and an offer may carry neither value.        *)
ReadThroughputOutcomes(cancelled, db, cont) ==
    IF cancelled THEN {ThroughputResponse(CtxCanceled, NoThroughput, NoThroughput)}
    ELSE {ThroughputResponse(f, NoThroughput, NoThroughput) :
             f \in Failures \cup {BadRequest}}
         \cup {IF ContainerOf(db, cont).tp.set
               THEN ThroughputResponse(NoCause, ContainerOf(db, cont).tp, NoThroughput)
               ELSE ThroughputResponse(NotFound, NoThroughput, NoThroughput),
               ThroughputResponse(NoCause, NoThroughput, Throughput(1000)),
               ThroughputResponse(NoCause, NoThroughput, NoThroughput)}

(* ThroughputInfo without the case of status 400 *)
ThroughputInfoNoEmulatorCase(resp) ==
    LET info(type, message) ==
            [NilThroughputInfo EXCEPT !.nil = FALSE, !.keys = {"type", "message"},
                                      !.type = type, !.message = message]
    IN  IF resp.err # NoCause
        THEN IF resp.err.isResponse /\ resp.err.status = 404
             THEN info("shared", <<"Throughput is provisioned at database level">>)
             ELSE info("error", <<"Failed to read throughput: ", resp.err.code>>)
        ELSE IF resp.manual.set
        THEN [NilThroughputInfo EXCEPT
                !.nil = FALSE, !.keys = {"type", "ru_per_second"}, !.type = "manual",
                !.ru_per_second = resp.manual.v]
        ELSE IF resp.autoscale.set
        THEN [NilThroughputInfo EXCEPT
                !.nil = FALSE, !.keys = {"type", "max_ru_per_second"},
                !.type = "autoscale", !.max_ru_per_second = resp.autoscale.v]
        ELSE NilThroughputInfo

(* ThroughputInfo asking for the autoscale maximum first, which the service *)
(* reports for a manual offer as well                                       *)
ThroughputInfoAutoscaleFirst(resp) ==
    IF resp.err = NoCause /\ (resp.manual.set \/ resp.autoscale.set)
    THEN [NilThroughputInfo EXCEPT
            !.nil = FALSE, !.keys = {"type", "max_ru_per_second"}, !.type = "autoscale",
            !.max_ru_per_second =
                IF resp.autoscale.set THEN resp.autoscale.v ELSE resp.manual.v]
    ELSE ThroughputInfoNoEmulatorCase(resp)

(* ThroughputInfo adding a message to every object *)
ThroughputInfoAlwaysMessage(resp) ==
    LET info == ThroughputInfoNoEmulatorCase(resp)
    IN  IF info.nil THEN info
        ELSE [info EXCEPT !.keys = @ \cup {"message"}]

(* The "Build throughput info" block *)
ThroughputInfo(resp) ==
    IF resp.err # NoCause
    THEN IF resp.err.isResponse
         THEN IF resp.err.status = 404
              THEN [NilThroughputInfo EXCEPT
                      !.nil = FALSE, !.keys = {"type", "message"}, !.type = "shared",
                      !.message = <<"Throughput is provisioned at database level">>]
              ELSE IF resp.err.status = 400
              THEN [NilThroughputInfo EXCEPT
                      !.nil = FALSE, !.keys = {"type", "message"}, !.type = "unknown",
                      !.message = <<"Unable to read throughput (emulator limitation or unsupported operation)">>]
              ELSE [NilThroughputInfo EXCEPT
                      !.nil = FALSE, !.keys = {"type", "message"}, !.type = "error",
                      !.message = <<"Failed to read throughput: ", resp.err.code>>]
         ELSE [NilThroughputInfo EXCEPT
                 !.nil = FALSE, !.keys = {"type", "message"}, !.type = "error",
                 !.message = <<"Failed to read throughput: ", resp.err.code>>]
    ELSE IF resp.manual.set
         THEN [NilThroughputInfo EXCEPT
                 !.nil = FALSE, !.keys = {"type", "ru_per_second"}, !.type = "manual",
                 !.ru_per_second = resp.manual.v]
         ELSE IF resp.autoscale.set
         THEN [NilThroughputInfo EXCEPT
                 !.nil = FALSE, !.keys = {"type", "max_ru_per_second"},
                 !.type = "autoscale", !.max_ru_per_second = resp.autoscale.v]
         ELSE NilThroughputInfo

(* ReadContainerMetadataThroughput returning the error of a throughput    *)
(* read that is not an answer of the service                              *)
ReadContainerMetadataThroughputFails(c) ==
    LET call == calls[c]
        input == call.input
    IN  /\ call.pc = "Container.ReadThroughput"
        /\ UNCHANGED <<databases, containers, items, nextId, server>>
        /\ \E resp \in ReadThroughputOutcomes(call.cancelled, input.database,
                                                input.container) :
              calls' = [calls EXCEPT ![c] =
                           IF resp.err # NoCause /\ ~resp.err.isResponse
                           THEN Fail([call EXCEPT !.bcalls = @ + 1, !.throughputResp = resp],
                                     Wrap("error reading throughput", resp.err))
                           ELSE Done([call EXCEPT !.bcalls = @ + 1, !.throughputResp = resp],
                                     [ZeroResult EXCEPT !.metadata = TRUE,
                                                        !.container = call.props,
                                                        !.throughput = ThroughputInfo(resp)])]

(* containerClient.ReadThroughput(ctx, nil), then the metadata map *)
ReadContainerMetadataThroughput(c) ==
    LET call == calls[c]
        input == call.input
    IN  /\ call.pc = "Container.ReadThroughput"
        /\ UNCHANGED <<databases, containers, items, nextId, server>>
        /\ \E resp \in ReadThroughputOutcomes(call.cancelled, input.database,
                                                input.container) :
              calls' = [calls EXCEPT ![c] =
                           Done([call EXCEPT !.bcalls = @ + 1, !.throughputResp = resp],
                                [ZeroResult EXCEPT !.metadata = TRUE,
                                                   !.container = call.props,
                                                   !.throughput = ThroughputInfo(resp)])]

----------------------------------------------------------------------------
(* create_container *)

CreateContainerInputs ==
    {[cfg EXCEPT !.database = d, !.container = n, !.partitionKeyPath = p,
                 !.throughput = t] :
        cfg \in ConnectionConfigs, d \in DatabaseNames, n \in ContainerNames,
        p \in PartitionKeyPaths, t \in Throughputs}

CreateContainerToolHandler(c) ==
    \E input \in CreateContainerInputs :
        Begin(c, "create_container", input, CreateContainerValidate(input),
              GetCosmosClientFunc(input.account), "CreateContainer")

(* CreateContainerReturn creating the container without throughput options *)
CreateContainerReturnNoOptions(c) ==
    LET call == calls[c]
        input == call.input
        decided == IF ~DbExists(input.database) THEN NotFound
                   ELSE IF ContExists(input.database, input.container) THEN Conflict
                   ELSE NoCause
    IN  /\ call.pc = "CreateContainer"
        /\ UNCHANGED <<databases, items, nextId, server>>
        /\ \E out \in Outcomes(call.cancelled, decided) :
              IF out # NoCause
              THEN /\ calls' = [calls EXCEPT ![c] =
                                   Fail([call EXCEPT !.bcalls = @ + 1],
                                        Wrap("error creating container", out))]
                   /\ UNCHANGED containers
              ELSE /\ containers' =
                        Append(containers,
                               [db |-> input.database, name |-> input.container,
                                path |-> input.partitionKeyPath,
                                tp |-> NoThroughput, by |-> call.id])
                   /\ calls' = [calls EXCEPT ![c] =
                                   Done([call EXCEPT !.bcalls = @ + 1],
                                        [ZeroResult EXCEPT
                                           !.account = input.account,
                                           !.database = input.database,
                                           !.container = input.container,
                                           !.message = <<"Container '", input.container,
                                                         "' created successfully in database '",
                                                         input.database, "'">>])]

(* databaseClient.CreateContainer(ctx, properties, options or nil) *)
CreateContainerReturn(c) ==
    LET call == calls[c]
        input == call.input
        decided == IF ~DbExists(input.database) THEN NotFound
                   ELSE IF ContExists(input.database, input.container) THEN Conflict
                   ELSE NoCause
    IN  /\ call.pc = "CreateContainer"
        /\ UNCHANGED <<databases, items, nextId, server>>
        /\ \E out \in Outcomes(call.cancelled, decided) :
              IF out # NoCause
              THEN /\ calls' = [calls EXCEPT ![c] =
                                   Fail([call EXCEPT !.bcalls = @ + 1],
                                        Wrap("error creating container", out))]
                   /\ UNCHANGED containers
              ELSE /\ containers' =
                        Append(containers,
                               [db |-> input.database, name |-> input.container,
                                path |-> input.partitionKeyPath,
                                tp |-> input.throughput, by |-> call.id])
                   /\ calls' = [calls EXCEPT ![c] =
                                   Done([call EXCEPT !.bcalls = @ + 1],
                                        [ZeroResult EXCEPT
                                           !.account = input.account,
                                           !.database = input.database,
                                           !.container = input.container,
                                           !.message = <<"Container '", input.container,
                                                         "' created successfully in database '",
                                                         input.database, "'">>])]

----------------------------------------------------------------------------
(* add_item_to_container *)

AddItemToContainerInputs ==
    {[cfg EXCEPT !.database = d, !.container = n, !.partitionKey = k, !.item = t] :
        cfg \in ConnectionConfigs, d \in ItemDatabases, n \in ItemContainers,
        k \in PartitionKeys, t \in ItemTexts}

AddItemToContainerCall(c, inputs) ==
    \E input \in inputs :
        Begin(c, "add_item_to_container", input, AddItemToContainerValidate(input),
              GetCosmosClientFunc(input.account), "CreateItem")

AddItemToContainerToolHandler(c) == AddItemToContainerCall(c, AddItemToContainerInputs)

(* containerClient.CreateItem(ctx, partitionKey, []byte(itemJSON), nil) *)
(* AddItemToContainerCreateItem trying once more after a failure of the    *)
(* service                                                                  *)
AddItemToContainerCreateItemRetries(c) ==
    LET call == calls[c]
        input == call.input
        decided ==
            IF ~ContExists(input.database, input.container) THEN NotFound
            ELSE IF ~WellFormed(input.item) THEN BadRequest
            ELSE IF input.item.id \in StoredIds(input.database, input.container,
                                                input.partitionKey) THEN Conflict
            ELSE NoCause
    IN  /\ call.pc = "CreateItem"
        /\ UNCHANGED <<databases, containers, nextId, server>>
        /\ \E out \in Outcomes(call.cancelled, decided) :
              IF out # NoCause
              THEN /\ calls' = [calls EXCEPT ![c] =
                                   IF call.bcalls = 0 /\ out \in Failures
                                   THEN [call EXCEPT !.bcalls = @ + 1]
                                   ELSE Fail([call EXCEPT !.bcalls = @ + 1],
                                             Wrap("error adding item to container", out))]
                   /\ UNCHANGED items
              ELSE /\ items' = Append(items, StoredItem(input.database, input.container,
                                                        input.partitionKey, input.item,
                                                        call.id))
                   /\ calls' = [calls EXCEPT ![c] =
                                   Done([call EXCEPT !.bcalls = @ + 1],
                                        [ZeroResult EXCEPT
                                           !.account = input.account,
                                           !.database = input.database,
                                           !.container = input.container,
                                           !.message = <<"Item added successfully to container '",
                                                         input.container, "' in database '",
                                                         input.database, "'">>])]

AddItemToContainerCreateItem(c) ==
    LET call == calls[c]
        input == call.input
        decided ==
            IF ~ContExists(input.database, input.container) THEN NotFound
            ELSE IF ~WellFormed(input.item) THEN BadRequest
            ELSE IF input.item.id \in StoredIds(input.database, input.container,
                                                input.partitionKey) THEN Conflict
            ELSE NoCause
    IN  /\ call.pc = "CreateItem"
        /\ UNCHANGED <<databases, containers, nextId, server>>
        /\ \E out \in Outcomes(call.cancelled, decided) :
              IF out # NoCause
              THEN /\ calls' = [calls EXCEPT ![c] =
                                   Fail([call EXCEPT !.bcalls = @ + 1],
                                        Wrap("error adding item to container", out))]
                   /\ UNCHANGED items
              ELSE /\ items' = Append(items, StoredItem(input.database, input.container,
                                                        input.partitionKey, input.item,
                                                        call.id))
                   /\ calls' = [calls EXCEPT ![c] =
                                   Done([call EXCEPT !.bcalls = @ + 1],
                                        [ZeroResult EXCEPT
                                           !.account = input.account,
                                           !.database = input.database,
                                           !.container = input.container,
                                           !.message = <<"Item added successfully to container '",
                                                         input.container, "' in database '",
                                                         input.database, "'">>])]

----------------------------------------------------------------------------
(* read_item *)

ReadItemInputs ==
    {[cfg EXCEPT !.database = d, !.container = n, !.itemID = i, !.partitionKey = k] :
        cfg \in ConnectionConfigs, d \in ItemDatabases, n \in ItemContainers,
        i \in ItemIDs, k \in PartitionKeys}

ReadItemCall(c, inputs) ==
    \E input \in inputs :
        Begin(c, "read_item", input, ReadItemValidate(input),
              GetCosmosClientFunc(input.account), "ReadItem")

ReadItemToolHandler(c) == ReadItemCall(c, ReadItemInputs)

(* ReadItemReturn looking the id up in every partition of the container *)
ReadItemReturnAnyPartition(c) ==
    LET call == calls[c]
        input == call.input
        found == SelectSeq(items, LAMBDA r : /\ r.db = input.database
                                             /\ r.cont = input.container
                                             /\ r.id = input.itemID)
        decided == IF found = <<>> THEN NotFound ELSE NoCause
    IN  /\ call.pc = "ReadItem"
        /\ UNCHANGED <<databases, containers, items, nextId, server>>
        /\ \E out \in Outcomes(call.cancelled, decided) :
              calls' = [calls EXCEPT ![c] =
                           IF out # NoCause
                           THEN Fail([call EXCEPT !.bcalls = @ + 1],
                                     Wrap("error reading item", out))
                           ELSE Done([call EXCEPT !.bcalls = @ + 1],
                                     [ZeroResult EXCEPT !.item = TextOf(found[1])])]

(* containerClient.ReadItem(ctx, partitionKey, input.ItemID, nil) *)
ReadItemReturn(c) ==
    LET call == calls[c]
        input == call.input
        found == SelectSeq(Stored(input.database, input.container, input.partitionKey),
                           LAMBDA r : r.id = input.itemID)
        decided == IF found = <<>> THEN NotFound ELSE NoCause
    IN  /\ call.pc = "ReadItem"
        /\ UNCHANGED <<databases, containers, items, nextId, server>>
        /\ \E out \in Outcomes(call.cancelled, decided) :
              calls' = [calls EXCEPT ![c] =
                           IF out # NoCause
                           THEN Fail([call EXCEPT !.bcalls = @ + 1],
                                     Wrap("error reading item", out))
                           ELSE Done([call EXCEPT !.bcalls = @ + 1],
                                     [ZeroResult EXCEPT !.item = TextOf(found[1])])]

----------------------------------------------------------------------------
(* execute_query *)

ExecuteQueryInputs ==
    {[cfg EXCEPT !.database = d, !.container = n, !.query = q, !.partitionKey = k] :
        cfg \in ConnectionConfigs, d \in ItemDatabases, n \in ItemContainers,
        q \in Queries, k \in PartitionKeys}

(* NewQueryItemsPager scoping the query to the partition key as given, *)
(* the empty one included                                               *)
NewQueryItemsPagerAlwaysScoped(input) ==
    [query |-> input.query, partitionKey |-> NewPartitionKeyString(input.partitionKey)]

(* containerClient.NewQueryItemsPager(input.Query, partitionKey, nil) *)
NewQueryItemsPager(input) ==
    [query |-> input.query,
     partitionKey |-> IF input.partitionKey # ""
                      THEN NewPartitionKeyString(input.partitionKey)
                      ELSE EmptyPartitionKey]

ExecuteQueryCall(c, inputs) ==
    \E input \in inputs :
        BeginPrepared(c, "execute_query", input, ExecuteQueryValidate(input),
                      GetCosmosClientFunc(input.account), NoErr, "QueryItems.NextPage",
                      NewQueryItemsPager(input))

ExecuteQueryToolHandler(c) == ExecuteQueryCall(c, ExecuteQueryInputs)

(* QueryItems running across the partitions whatever the partition key *)
QueryItemsCrossPartition(db, cont, partitionKey) ==
    LET docs == SelectSeq(items, LAMBDA r : r.db = db /\ r.cont = cont)
    IN  [i \in 1..Len(docs) |-> TextOf(docs[i])]

(* What the service selects from the documents in scope for a query text *)
Selected(text, docs) ==
    IF text = "SELECT * FROM c" THEN docs
    ELSE IF text = "SELECT * FROM c WHERE c.id = 'i1'"
    THEN SelectSeq(docs, LAMBDA t : t.id = <<"i1">>)
    ELSE <<>>

(* The documents in scope of a pager: those of the partition when a         *)
(* partition key is given, those of the container with the empty key        *)
QueryItems(db, cont, partitionKey) ==
    LET docs == IF partitionKey # EmptyPartitionKey
                THEN Stored(db, cont, partitionKey[1])
                ELSE SelectSeq(items, LAMBDA r : r.db = db /\ r.cont = cont)
    IN  [i \in 1..Len(docs) |-> TextOf(docs[i])]

(* queryPager.NextPage(ctx) *)
ExecuteQueryNextPage(c) ==
    LET call == calls[c]
        input == call.input
        all == Selected(call.pager.query,
                        QueryItems(input.database, input.container,
                                   call.pager.partitionKey))
        decided == IF ContExists(input.database, input.container) THEN NoCause
                   ELSE NotFound
    IN  /\ call.pc = "QueryItems.NextPage"
        /\ UNCHANGED <<databases, containers, items, nextId, server>>
        /\ \E out \in Outcomes(call.cancelled, decided) :
              IF out # NoCause
              THEN calls' = [calls EXCEPT ![c] =
                                Fail([call EXCEPT !.bcalls = @ + 1],
                                     Wrap("query page error", out))]
              ELSE \E k \in PageSizes(call, all) :
                     LET after == Page(call, all, k)
                     IN  calls' = [calls EXCEPT ![c] =
                                      IF after.pending # <<>> THEN after
                                      ELSE Done(after, [ZeroResult EXCEPT
                                                          !.list = after.acc])]

----------------------------------------------------------------------------
(* batch_create_items *)

BatchCreateItemsInputs ==
    {[cfg EXCEPT !.database = d, !.container = n, !.partitionKey = k, !.items = a] :
        cfg \in ConnectionConfigs, d \in ItemDatabases, n \in ItemContainers,
        k \in PartitionKeys, a \in ItemArrays}

(* ParseItems looking at the first item only *)
ParseItemsFirstOnly(texts) ==
    IF WellFormed(texts[1]) THEN NoErr
    ELSE Wrap("batch failed",
              OtherError(IF texts[1].kind = "doc" THEN "item has no id"
                         ELSE "item is not valid JSON"))

(* Each item is parsed as JSON and must carry a non-empty id: the error of  *)
(* the first item that does not, NoErr when all do                          *)
ParseItems(texts) ==
    LET bad == {i \in 1..Len(texts) : ~WellFormed(texts[i])}
    IN  IF bad = {} THEN NoErr
        ELSE LET i == CHOOSE j \in bad : \A m \in bad : j <= m
             IN  Wrap("batch failed",
                      OtherError(IF texts[i].kind = "doc" THEN "item has no id"
                                 ELSE "item is not valid JSON"))

BatchCreateItemsCall(c, inputs) ==
    \E input \in inputs :
        BeginThen(c, "batch_create_items", input, BatchCreateItemsValidate(input),
                  GetClient(input), ParseItems(input.items), "ExecuteTransactionalBatch")

BatchCreateItemsToolHandler(c) == BatchCreateItemsCall(c, BatchCreateItemsInputs)

(* The verdict of the service on a transactional batch of creates: one      *)
(* operation that conflicts fails the batch.                                *)
BatchVerdict(db, cont, pk, texts) ==
    IF ~ContExists(db, cont) THEN NotFound
    ELSE IF \E i \in 1..Len(texts) : ~WellFormed(texts[i]) THEN BadRequest
    ELSE IF \/ \E i \in 1..Len(texts) : texts[i].id \in StoredIds(db, cont, pk)
            \/ \E i, j \in 1..Len(texts) : i # j /\ texts[i].id = texts[j].id
    THEN Conflict
    ELSE NoCause

(* ItemsAfterBatch of a service that keeps the operations preceding the     *)
(* one that conflicts                                                       *)
ItemsAfterBatchKeepsPrefix(out, input, by) ==
    LET stored == [i \in 1..Len(input.items) |->
                     StoredItem(input.database, input.container, input.partitionKey,
                                input.items[i], by)]
        ids == StoredIds(input.database, input.container, input.partitionKey)
        clash == {i \in 1..Len(stored) :
                    \/ stored[i].id \in ids
                    \/ \E j \in 1..(i - 1) : stored[j].id = stored[i].id}
    IN  IF out = NoCause THEN items \o stored
        ELSE IF out = Conflict /\ clash # {}
        THEN items \o SubSeq(stored, 1, (CHOOSE i \in clash : \A j \in clash : i <= j) - 1)
        ELSE items

(* ItemsAfterBatch of a service that commits the batch of a caller whose    *)
(* context ended while the request was under way                            *)
ItemsAfterBatchCommitsCancelled(out, input, by) ==
    IF out \in {NoCause, CtxCanceled}
    THEN items \o [i \in 1..Len(input.items) |->
                     StoredItem(input.database, input.container, input.partitionKey,
                                input.items[i], by)]
    ELSE items

(* The items of the service after a batch that ended with out: all of the   *)
(* batch when it succeeded, and nothing of it otherwise.                    *)
ItemsAfterBatch(out, input, by) ==
    IF out = NoCause
    THEN items \o [i \in 1..Len(input.items) |->
                     StoredItem(input.database, input.container, input.partitionKey,
                                input.items[i], by)]
    ELSE items

(* BatchCreateItemsResult counting the operations of the response, which    *)
(* the handler has one more of than items                                   *)
BatchCreateItemsResultMiscount(call, out) ==
    IF out # NoCause
    THEN Fail([call EXCEPT !.bcalls = @ + 1], Wrap("batch failed", out))
    ELSE Done([call EXCEPT !.bcalls = @ + 1],
              [ZeroResult EXCEPT
                 !.account = call.input.account,
                 !.database = call.input.database,
                 !.container = call.input.container,
                 !.itemsCreated = Len(call.input.items) + 1,
                 !.message = <<"Successfully created items">>])

(* BatchCreateItemsResult reporting the items before the failure, and the   *)
(* error of the service as it came                                          *)
BatchCreateItemsResultPartial(call, out) ==
    IF out # NoCause
    THEN [Fail([call EXCEPT !.bcalls = @ + 1], Wrap("", out))
             EXCEPT !.result.itemsCreated = Len(call.input.items) - 1]
    ELSE Done([call EXCEPT !.bcalls = @ + 1],
              [ZeroResult EXCEPT
                 !.account = call.input.account,
                 !.database = call.input.database,
                 !.container = call.input.container,
                 !.itemsCreated = Len(call.input.items),
                 !.message = <<"Successfully created items">>])

(* What the handler returns for the outcome out of its one submission *)
BatchCreateItemsResult(call, out) ==
    IF out # NoCause
    THEN Fail([call EXCEPT !.bcalls = @ + 1], Wrap("batch failed", out))
    ELSE Done([call EXCEPT !.bcalls = @ + 1],
              [ZeroResult EXCEPT
                 !.account = call.input.account,
                 !.database = call.input.database,
                 !.container = call.input.container,
                 !.itemsCreated = Len(call.input.items),
                 !.message = <<"Successfully created items">>])

(* The batch is submitted once, under the invocation's context *)
BatchCreateItemsExecute(c) ==
    LET call == calls[c]
        input == call.input
        decided == BatchVerdict(input.database, input.container, input.partitionKey,
                                input.items)
    IN  /\ call.pc = "ExecuteTransactionalBatch"
        /\ UNCHANGED <<databases, containers, nextId, server>>
        /\ \E out \in Outcomes(call.cancelled, decided) :
              /\ items' = ItemsAfterBatch(out, input, call.id)
              /\ calls' = [calls EXCEPT ![c] = BatchCreateItemsResult(call, out)]

----------------------------------------------------------------------------
(* The invocation is cancelled by its caller; its result is handed back *)

Cancel(c) ==
    /\ calls[c].pc \notin {"idle", "done"}
    /\ ~calls[c].cancelled
    /\ calls' = [calls EXCEPT ![c].cancelled = TRUE]
    /\ UNCHANGED <<databases, containers, items, nextId, server>>

Return(c) ==
    /\ calls[c].pc = "done"
    /\ calls' = [calls EXCEPT ![c] = IdleCall]
    /\ UNCHANGED <<databases, containers, items, nextId, server>>

----------------------------------------------------------------------------

Next ==
    \/ \E c \in DOMAIN calls : ListDatabasesToolHandler(c)
    \/ \E c \in DOMAIN calls : ListDatabasesNextPage(c)
    \/ \E c \in DOMAIN calls : CreateDatabaseToolHandler(c)
    \/ \E c \in DOMAIN calls : CreateDatabaseReturn(c)
    \/ \E c \in DOMAIN calls : ListContainersToolHandler(c)
    \/ \E c \in DOMAIN calls : ListContainersNextPage(c)
    \/ \E c \in DOMAIN calls : ReadContainerMetadataToolHandler(c)
    \/ \E c \in DOMAIN calls : ReadContainerMetadataRead(c)
    \/ \E c \in DOMAIN calls : ReadContainerMetadataThroughput(c)
    \/ \E c \in DOMAIN calls : CreateContainerToolHandler(c)
    \/ \E c \in DOMAIN calls : CreateContainerReturn(c)
    \/ \E c \in DOMAIN calls : AddItemToContainerToolHandler(c)
    \/ \E c \in DOMAIN calls : AddItemToContainerCreateItem(c)
    \/ \E c \in DOMAIN calls : ReadItemToolHandler(c)
    \/ \E c \in DOMAIN calls : ReadItemReturn(c)
    \/ \E c \in DOMAIN calls : ExecuteQueryToolHandler(c)
    \/ \E c \in DOMAIN calls : ExecuteQueryNextPage(c)
    \/ \E c \in DOMAIN calls : BatchCreateItemsToolHandler(c)
    \/ \E c \in DOMAIN calls : BatchCreateItemsExecute(c)
    \/ \E c \in DOMAIN calls : Cancel(c)
    \/ \E c \in DOMAIN calls : Return(c)

Spec == Init /\ [][Next]_vars

(* Two invocations at a time, batches against single creates, from callers *)
(* that write to one partition of the container                            *)
ConcRequest(input) ==
    /\ input.account = "acct"
    /\ ~input.useEmulator
    /\ input.database = "db"
    /\ input.container = "cont"
    /\ input.partitionKey = "pk1"
    /\ Len(input.items) <= MaxItems

ConcBatchInputs == {input \in BatchCreateItemsInputs : ConcRequest(input)}
ConcAddItemInputs == {input \in AddItemToContainerInputs : ConcRequest(input)}

InitConc == InitWith({1, 2})

NextConc ==
    \/ \E c \in DOMAIN calls : BatchCreateItemsCall(c, ConcBatchInputs)
    \/ \E c \in DOMAIN calls : BatchCreateItemsExecute(c)
    \/ \E c \in DOMAIN calls : AddItemToContainerCall(c, ConcAddItemInputs)
    \/ \E c \in DOMAIN calls : AddItemToContainerCreateItem(c)
    \/ \E c \in DOMAIN calls : Cancel(c)

SpecConc == InitConc /\ [][NextConc]_vars

(* One caller that sends a request when the answer to its last one is in   *)
(* and keeps the answers: it writes single items, reads them back and      *)
(* queries the container                                                    *)
WriteReadRequest(input) ==
    /\ input.account = "acct"
    /\ ~input.useEmulator
    /\ input.database = "db"
    /\ input.container # ""

WriteReadAddItemInputs ==
    {input \in AddItemToContainerInputs :
        WriteReadRequest(input) /\ input.partitionKey # ""}
WriteReadReadItemInputs ==
    {input \in ReadItemInputs :
        WriteReadRequest(input) /\ input.partitionKey # "" /\ input.itemID # NoId}
WriteReadQueryInputs == {input \in ExecuteQueryInputs : WriteReadRequest(input)}

Answered(c) == \A d \in DOMAIN calls \ {c} : calls[d].pc \in {"idle", "done"}

InitWriteRead == InitWith({1, 2})

NextWriteRead ==
    \/ \E c \in DOMAIN calls : Answered(c) /\ AddItemToContainerCall(c, WriteReadAddItemInputs)
    \/ \E c \in DOMAIN calls : AddItemToContainerCreateItem(c)
    \/ \E c \in DOMAIN calls : Answered(c) /\ ReadItemCall(c, WriteReadReadItemInputs)
    \/ \E c \in DOMAIN calls : ReadItemReturn(c)
    \/ \E c \in DOMAIN calls : Answered(c) /\ ExecuteQueryCall(c, WriteReadQueryInputs)
    \/ \E c \in DOMAIN calls : ExecuteQueryNextPage(c)

SpecWriteRead == InitWriteRead /\ [][NextWriteRead]_vars

(* The start of the server: main under the environments it may be given *)
ServerModes == {"", "http", "stdio", "HTTP", "sse"}
PortValues == {"", "8080", "7070"}
Environments ==
    {Environment(m, sp, p) : m \in ServerModes, sp \in PortValues, p \in PortValues}

Getenv(name) == server.env[name]

(* main up to the call that serves: http.ListenAndServe(":"+port, handler) *)
(* or server.Run(context.Background(), &mcp.StdioTransport{})              *)
main ==
    /\ server.pc = "main"
    /\ UNCHANGED <<calls, databases, containers, items, nextId>>
    /\ IF Getenv("COSMOSDB_MCP_SERVER_MODE") = "http"
       THEN LET port == IF Getenv("SERVER_PORT") = "" THEN "9090"
                        ELSE Getenv("SERVER_PORT")
            IN  server' = [server EXCEPT !.pc = "http.ListenAndServe",
                                         !.addr = <<":", port>>]
       ELSE server' = [server EXCEPT !.pc = "server.Run"]

(* http.ListenAndServe returns only with an error, which is fatal *)
ListenAndServe ==
    /\ server.pc = "http.ListenAndServe"
    /\ UNCHANGED <<calls, databases, containers, items, nextId>>
    /\ server' = [server EXCEPT !.pc = "log.Fatal"]

(* server.Run returns when the transport closes, with or without an error *)
Run ==
    /\ server.pc = "server.Run"
    /\ UNCHANGED <<calls, databases, containers, items, nextId>>
    /\ \E pc \in {"exit", "log.Fatalf"} : server' = [server EXCEPT !.pc = pc]

InitMain ==
    InitServed({1}, {Process("main", env, NoAddr) : env \in Environments})

NextMain ==
    \/ main
    \/ ListenAndServe
    \/ Run

SpecMain == InitMain /\ [][NextMain]_vars

(* Two invocations at a time from callers of two accounts, which write to  *)
(* and read from the container                                              *)
TwoAccounts == {"acct", "acct2"}

TwoAccountsAddItemInputs ==
    {[input EXCEPT !.account = a] :
        input \in {i \in WriteReadAddItemInputs :
                      i.container = "cont" /\ WellFormed(i.item)},
        a \in TwoAccounts}
TwoAccountsReadItemInputs ==
    {[input EXCEPT !.account = a] :
        input \in {i \in WriteReadReadItemInputs : i.container = "cont"},
        a \in TwoAccounts}

InitTwoAccounts == InitWith({1, 2})

NextTwoAccounts ==
    \/ \E c \in DOMAIN calls : AddItemToContainerCall(c, TwoAccountsAddItemInputs)
    \/ \E c \in DOMAIN calls : AddItemToContainerCreateItem(c)
    \/ \E c \in DOMAIN calls : ReadItemCall(c, TwoAccountsReadItemInputs)
    \/ \E c \in DOMAIN calls : ReadItemReturn(c)

SpecTwoAccounts == InitTwoAccounts /\ [][NextTwoAccounts]_vars

----------------------------------------------------------------------------
(* The vocabulary of the properties *)

Running == {c \in DOMAIN calls : calls[c].pc # "idle"}
Finished == {c \in DOMAIN calls : calls[c].pc = "done"}

ConnectionConfigTools == {"list_databases", "create_database", "batch_create_items"}

(* The required fields of a tool, in the order connection, database,       *)
(* container, then the fields of the operation                              *)
RequiredFields(tool) ==
    CASE tool = "list_databases" -> <<"account">>
      [] tool = "create_database" -> <<"account", "database">>
      [] tool = "list_containers" -> <<"account", "database">>
      [] tool = "read_container_metadata" -> <<"account", "database", "container">>
      [] tool = "create_container" ->
            <<"account", "database", "container", "partitionKeyPath">>
      [] tool = "add_item_to_container" ->
            <<"account", "database", "container", "partitionKey", "item">>
      [] tool = "read_item" ->
            <<"account", "database", "container", "itemID", "partitionKey">>
      [] tool = "execute_query" -> <<"account", "database", "container", "query">>
      [] tool = "batch_create_items" ->
            <<"account", "database", "container", "partitionKey", "items">>

(* A required field of the input is empty.  The account of a tool whose    *)
(* input embeds ConnectionConfig is required outside emulator mode; the    *)
(* other tools declare it as a plain required string.                      *)
IsEmpty(tool, input, field) ==
    CASE field = "account" ->
            /\ input.account = ""
            /\ tool \in ConnectionConfigTools => ~input.useEmulator
      [] field = "database" -> input.database = ""
      [] field = "container" -> input.container = ""
      [] field = "partitionKeyPath" -> input.partitionKeyPath = ""
      [] field = "partitionKey" -> input.partitionKey = ""
      [] field = "item" -> input.item = EmptyText
      [] field = "itemID" -> input.itemID = NoId
      [] field = "query" -> input.query = ""
      [] field = "items" -> Len(input.items) = 0

EmptyRequired(tool, input) ==
    {i \in 1..Len(RequiredFields(tool)) : IsEmpty(tool, input, RequiredFields(tool)[i])}

(* The validation message a tool declares for a required field (section    *)
(* 4.2 of the specification, and the error cases of tools_test.go)          *)
DeclaredError(tool, field) ==
    CASE field = "account" -> {"account name is required", "cosmos db account name missing"}
      [] field = "database" ->
            IF tool \in {"create_database", "read_item", "execute_query"}
            THEN {"database name missing"} ELSE {"cosmos db database name missing"}
      [] field = "container" -> {"container name missing"}
      [] field = "partitionKeyPath" -> {"partition key path missing"}
      [] field = "partitionKey" ->
            IF tool = "add_item_to_container" THEN {"value for partition key missing"}
            ELSE IF tool = "read_item" THEN {"partition key missing"}
            ELSE {"partition key value missing"}
      [] field = "item" -> {"item JSON missing"}
      [] field = "itemID" -> {"item ID missing"}
      [] field = "query" -> {"query string missing"}
      [] field = "items" -> {"items array is empty"}

(* What the invocation with this id created in the service *)
CreatedBy(id) ==
    {r \in Range(databases) : r.by = id} \cup {r \in Range(containers) : r.by = id}
        \cup {r \in Range(items) : r.by = id}

----------------------------------------------------------------------------
C2_AccountNameIsRequired ==
    \A c \in Running :
        (calls[c].input.account = "" /\ ~calls[c].input.useEmulator) =>
            /\ calls[c].pc = "done"
            /\ calls[c].err.msg = "account name is required"

(* C3: when several required fields are empty the error is the one of the  *)
(* first empty field in the order account, database, container, then the   *)
(* fields of the operation (partitionKeyPath; partitionKey then item;      *)
(* itemID then partitionKey; query).                                       *)
FirstEmpty(tool, input) ==
    CHOOSE i \in EmptyRequired(tool, input) :
        \A j \in EmptyRequired(tool, input) : i <= j

C3_ValidationOrder ==
    \A c \in Finished :
        LET call == calls[c]
        IN  EmptyRequired(call.tool, call.input) # {} =>
                call.err.msg \in DeclaredError(call.tool,
                    RequiredFields(call.tool)[FirstEmpty(call.tool, call.input)])

(* A read_item with neither item id nor partition key has been answered    *)
(* with the error of the item id                                           *)
C3_Witness ==
    \E c \in Finished :
        /\ calls[c].tool = "read_item"
        /\ calls[c].input.itemID = NoId
        /\ calls[c].input.partitionKey = ""
        /\ calls[c].input.container # ""
        /\ calls[c].err = Error("item ID missing")

----------------------------------------------------------------------------
(* batch_create_items *)

Batches == {c \in Running : calls[c].tool = "batch_create_items"}

(* The connection and the names of the input pass their checks *)
NamesGiven(input) ==
    /\ Validate(input) = ""
    /\ input.database # ""
    /\ input.container # ""
    /\ input.partitionKey # ""

(* The items of the batch as the service stores them for invocation id *)
BatchItems(input, id) ==
    {StoredItem(input.database, input.container, input.partitionKey, input.items[i], id) :
        i \in 1..Len(input.items)}

(* What invocation id has stored *)
ItemsBy(id) == {r \in Range(items) : r.by = id}

(* C4: a batch whose other fields are given is accepted, that is passes on *)
(* to the client resolution, exactly when it has 1 to 100 items; no items  *)
(* is "items array is empty" and more than 100 is "batch exceeds maximum   *)
(* of 100 items", both without a backend call; a batch of exactly 100      *)
(* that succeeds reports itemsCreated = 100.                               *)
C4_BatchSizeLimits ==
    \A c \in Batches :
        LET call == calls[c]
            n == Len(call.input.items)
        IN  NamesGiven(call.input) =>
                /\ call.resolves = 1 <=> (1 <= n /\ n <= MaxBatchItems)
                /\ n = 0 => call.err = Error("items array is empty")
                /\ n > MaxBatchItems =>
                      call.err = Error("batch exceeds maximum of 100 items")
                /\ call.resolves = 0 =>
                      call.pc = "done" /\ call.bcalls = 0 /\ ItemsBy(call.id) = {}
                /\ (n = MaxBatchItems /\ call.pc = "done" /\ call.err = NoErr) =>
                      call.result.itemsCreated = MaxBatchItems

(* A batch of exactly 100 items has succeeded *)
C4_Witness ==
    \E c \in Finished :
        /\ calls[c].tool = "batch_create_items"
        /\ Len(calls[c].input.items) = MaxBatchItems
        /\ calls[c].err = NoErr
        /\ calls[c].result.itemsCreated = MaxBatchItems
        /\ Cardinality(ItemsBy(calls[c].id)) = MaxBatchItems

(* C5: a batch submitted with an item whose id is already stored in its    *)
(* partition ends with "batch failed" and leaves the stored items as they  *)
(* were.                                                                   *)
C5_DuplicateFailsBatch ==
    [][\A c \in DOMAIN calls :
          LET input == calls[c].input
          IN  (/\ calls[c].pc = "ExecuteTransactionalBatch"
               /\ calls'[c].pc = "done"
               /\ \E i \in 1..Len(input.items) :
                     input.items[i].id \in
                         StoredIds(input.database, input.container, input.partitionKey))
              => /\ calls'[c].err.msg = "batch failed"
                 /\ calls'[c].err.cause # NoCause
                 /\ items' = items]_vars

(* A batch of a new item and an item that is stored has been refused with  *)
(* a conflict                                                              *)
C5_Witness ==
    \E c \in Finished :
        LET input == calls[c].input
        IN  /\ calls[c].tool = "batch_create_items"
            /\ calls[c].err = Wrap("batch failed", Conflict)
            /\ Len(input.items) = 2
            /\ input.items[1].id \notin
                  StoredIds(input.database, input.container, input.partitionKey)
            /\ input.items[2].id \in
                  StoredIds(input.database, input.container, input.partitionKey)

C7_MalformedItemFailsLocally ==
    \A c \in Batches :
        LET call == calls[c]
        IN  (/\ BatchCreateItemsValidate(call.input) = ""
             /\ \E i \in 1..Len(call.input.items) : ~WellFormed(call.input.items[i]))
            => /\ call.pc = "done"
               /\ \/ call.err = ParseItems(call.input.items)
                  \/ call.err \in {r.err : r \in GetClient(call.input)} \ {NoErr}
               /\ call.err # NoErr
               /\ call.bcalls = 0
               /\ ItemsBy(call.id) = {}

(* A batch whose second item is not JSON has been refused *)
C7_Witness ==
    \E c \in Finished :
        /\ calls[c].tool = "batch_create_items"
        /\ Len(calls[c].input.items) = 2
        /\ WellFormed(calls[c].input.items[1])
        /\ calls[c].input.items[2] = GarbageText
        /\ calls[c].err = Wrap("batch failed", OtherError("item is not valid JSON"))
        /\ calls[c].resolves = 1

(* C8: a batch that succeeds reports as itemsCreated the number of items   *)
(* submitted, and each of them is stored under the partition key of the    *)
(* batch.                                                                  *)
C8_SuccessStoresAll ==
    \A c \in Batches :
        LET call == calls[c]
        IN  (call.pc = "done" /\ call.err = NoErr) =>
                /\ call.result.itemsCreated = Len(call.input.items)
                /\ BatchItems(call.input, call.id) \subseteq Range(items)
                /\ Cardinality(BatchItems(call.input, call.id)) = Len(call.input.items)

(* A batch of two items has succeeded *)
C8_Witness ==
    \E c \in Finished :
        /\ calls[c].tool = "batch_create_items"
        /\ calls[c].err = NoErr
        /\ Len(calls[c].input.items) = 2
        /\ calls[c].result.itemsCreated = 2
        /\ Len(items) >= 2

(* C9: a batch that fails returns one error and the zero result, so no     *)
(* count of items; a failure of the submission is "batch failed" around    *)
(* the error of the backend; the batch is submitted at most once and       *)
(* nothing of a failed batch is stored.                                    *)
C9_FailureIsTerminal ==
    \A c \in Batches :
        LET call == calls[c]
        IN  /\ call.bcalls <= 1
            /\ (call.pc = "done" /\ call.err # NoErr) =>
                  /\ call.result = ZeroResult
                  /\ call.err.msg # ""
                  /\ call.bcalls = 1 =>
                        call.err.msg = "batch failed" /\ call.err.cause # NoCause
                  /\ ItemsBy(call.id) = {}
            /\ (call.pc = "done" /\ call.err = NoErr) => call.bcalls = 1

(* A batch has been refused by the service with a 403 *)
C9_Witness ==
    \E c \in Finished :
        /\ calls[c].tool = "batch_create_items"
        /\ calls[c].bcalls = 1
        /\ calls[c].err = Wrap("batch failed", Forbidden)
        /\ Len(calls[c].input.items) = 2

----------------------------------------------------------------------------
(* read_container_metadata *)

ThroughputTypes == {"manual", "autoscale", "shared", "unknown", "error"}

(* C10: whatever the throughput lookup answers, the metadata that          *)
(* read_container_metadata returns carries a throughput object, never nil, *)
(* whose type is one of manual, autoscale, shared, unknown and error.  A   *)
(* lookup that succeeds with neither a manual nor an autoscale value       *)
(* leaves the object nil.                                                  *)
C10_ThroughputClassificationTotal ==
    \A c \in Finished :
        (/\ calls[c].tool = "read_container_metadata"
         /\ calls[c].err = NoErr)
        => /\ ~calls[c].result.throughput.nil
           /\ calls[c].result.throughput.type \in ThroughputTypes

MetadataRead ==
    {c \in Finished : calls[c].tool = "read_container_metadata" /\ calls[c].err = NoErr}

(* C11: when the throughput read fails with a response error of the        *)
(* service, the status code alone decides the object: 404 is type shared   *)
(* with "Throughput is provisioned at database level", 400 is type unknown *)
(* with the message of the emulator limitation, and any other status is    *)
(* type error with a message that carries the error code of the service.   *)
C11_ThroughputErrorClassification ==
    \A c \in MetadataRead :
        LET resp == calls[c].throughputResp
            info == calls[c].result.throughput
        IN  (resp.err # NoCause /\ resp.err.isResponse) =>
                /\ ~info.nil
                /\ resp.err.status = 404 =>
                      /\ info.type = "shared"
                      /\ info.message = <<"Throughput is provisioned at database level">>
                /\ resp.err.status = 400 =>
                      /\ info.type = "unknown"
                      /\ info.message = <<"Unable to read throughput (emulator limitation or unsupported operation)">>
                /\ resp.err.status \notin {404, 400} =>
                      /\ info.type = "error"
                      /\ info.message = <<"Failed to read throughput: ", resp.err.code>>

(* The throughput read of the emulator (400) has been classified as        *)
(* unknown                                                                 *)
C11_Witness ==
    \E c \in MetadataRead :
        /\ calls[c].throughputResp.err = BadRequest
        /\ calls[c].result.throughput.type = "unknown"
        /\ calls[c].bcalls = 2

(* C12: when the throughput read succeeds, a manual value gives type       *)
(* manual with ru_per_second equal to it, and an autoscale maximum without *)
(* a manual value gives type autoscale with max_ru_per_second equal to it. *)
C12_ThroughputSuccessMapping ==
    \A c \in MetadataRead :
        LET resp == calls[c].throughputResp
            info == calls[c].result.throughput
        IN  resp.err = NoCause =>
                /\ resp.manual.set =>
                      /\ info.type = "manual"
                      /\ "ru_per_second" \in info.keys
                      /\ info.ru_per_second = resp.manual.v
                /\ (~resp.manual.set /\ resp.autoscale.set) =>
                      /\ info.type = "autoscale"
                      /\ "max_ru_per_second" \in info.keys
                      /\ info.max_ru_per_second = resp.autoscale.v

(* The metadata of a container created with a throughput of 400 reports it *)
(* as manual                                                               *)
C12_Witness ==
    \E c \in MetadataRead :
        /\ calls[c].throughputResp.manual = Throughput(400)
        /\ calls[c].result.throughput.type = "manual"
        /\ calls[c].result.throughput.ru_per_second = 400
        /\ \E r \in Range(containers) : r.name = calls[c].input.container /\ r.by # 0

(* C13: in the throughput object of every metadata result ru_per_second is *)
(* present only for type manual, max_ru_per_second only for type           *)
(* autoscale, and message exactly for the types shared, unknown and error; *)
(* so no object has a number and a message.                                *)
C13_ThroughputFieldsExclusive ==
    \A c \in MetadataRead :
        LET info == calls[c].result.throughput
        IN  /\ "ru_per_second" \in info.keys => info.type = "manual"
            /\ "max_ru_per_second" \in info.keys => info.type = "autoscale"
            /\ "message" \in info.keys <=> info.type \in {"shared", "unknown", "error"}
            /\ ~({"ru_per_second", "message"} \subseteq info.keys)
            /\ ~({"max_ru_per_second", "message"} \subseteq info.keys)
            /\ ~info.nil => "type" \in info.keys

(* Metadata with an autoscale maximum has been returned *)
C13_Witness ==
    \E c \in MetadataRead :
        /\ calls[c].result.throughput.type = "autoscale"
        /\ calls[c].result.throughput.keys = {"type", "max_ru_per_second"}

----------------------------------------------------------------------------
(* The paged operations *)

PagedTools == {"list_databases", "list_containers", "execute_query"}

Paged == {c \in Running : calls[c].tool \in PagedTools}

(* What the service lists for the invocation, in the order of the service *)
Listing(call) ==
    CASE call.tool = "list_databases" -> [i \in 1..Len(databases) |-> databases[i].name]
      [] call.tool = "list_containers" ->
            LET inDb == SelectSeq(containers, LAMBDA r : r.db = call.input.database)
            IN  [i \in 1..Len(inDb) |-> inDb[i].name]
      [] call.tool = "execute_query" ->
            Selected(call.input.query,
                     QueryItems(call.input.database, call.input.container,
                                NewQueryItemsPager(call.input).partitionKey))

(* C14: when every page fetch succeeds, the list a paged operation returns *)
(* is the pages in their order of arrival, each in its own order, nothing  *)
(* dropped or repeated: the listing of the service.  While pages are left  *)
(* the invocation has not returned, and holds the pages so far in order.   *)
C14_PagesConcatenatedInOrder ==
    \A c \in Paged :
        LET call == calls[c]
        IN  /\ (call.pc = "done" /\ call.err = NoErr) =>
                  /\ call.result.list = Listing(call)
                  /\ call.fetched >= 1
                  /\ call.bcalls = call.fetched
            /\ (call.pc # "done" /\ call.fetched > 0) =>
                  /\ call.pending # <<>>
                  /\ call.acc \o call.pending = Listing(call)

(* Two databases have been listed in two pages *)
C14_Witness ==
    \E c \in Finished :
        /\ calls[c].tool = "list_databases"
        /\ calls[c].err = NoErr
        /\ calls[c].fetched = 2
        /\ calls[c].result.list = <<"db", "db2">>

(* C15: when the fetch of a page fails, at whatever position, the paged    *)
(* operation ends with that error and the zero result, so with none of the *)
(* items of the earlier pages, and the failed fetch is its last.           *)
C15_PageFailureDiscardsAll ==
    \A c \in Paged :
        LET call == calls[c]
        IN  (call.pc = "done" /\ call.err # NoErr /\ call.bcalls > 0) =>
                /\ call.err.cause # NoCause
                /\ call.result = ZeroResult
                /\ call.bcalls = call.fetched + 1

(* The fetch of the second page of containers has failed *)
C15_Witness ==
    \E c \in Finished :
        /\ calls[c].tool = "list_containers"
        /\ calls[c].err = Wrap("", Forbidden)
        /\ calls[c].fetched = 1
        /\ calls[c].bcalls = 2

----------------------------------------------------------------------------
(* Cancellation and retries *)

(* C16: every backend call of an invocation runs under the context of the  *)
(* invocation: the step that a cancelled invocation takes ends it with the *)
(* cancellation error.  The page fetches of list_databases run under       *)
(* context.Background(), and read_container_metadata turns a cancelled     *)
(* throughput read into a throughput object of type error.                 *)
C16_CancelledCallAborts ==
    [][\A c \in DOMAIN calls :
          (/\ calls[c].cancelled
           /\ calls[c].pc \notin {"idle", "done"}
           /\ calls'[c] # calls[c])
          => /\ calls'[c].pc = "done"
             /\ calls'[c].err.cause = CtxCanceled]_vars

(* The backend operations a tool issues when none fails, the page fetches  *)
(* of a paged tool apart                                                   *)
Operations(tool) == IF tool = "read_container_metadata" THEN 2 ELSE 1

(* The backend operations completed by an invocation that waits in pc *)
OperationsBefore(call) ==
    IF call.tool \in PagedTools THEN call.fetched
    ELSE IF call.pc = "Container.ReadThroughput" THEN 1
    ELSE 0

(* The invocation ended with the error of a backend operation (the cause  *)
(* of the error of a batch may also be an item that did not parse)         *)
BackendError(call) ==
    /\ call.pc = "done"
    /\ call.err.cause # NoCause
    /\ call.tool = "batch_create_items" => call.err # ParseItems(call.input.items)

(* C17: no handler retries: an invocation that waits for a backend         *)
(* operation has issued only the operations before it, each once; an       *)
(* invocation that ended with a backend error issued the failed operation  *)
(* once, as its last; and an invocation never issues more operations than  *)
(* its tool has.                                                           *)
C17_NoRetries ==
    \A c \in Running :
        LET call == calls[c]
        IN  /\ call.pc # "done" => call.bcalls = OperationsBefore(call)
            /\ call.tool \notin PagedTools => call.bcalls <= Operations(call.tool)
            /\ (call.pc = "done" /\ call.tool \in PagedTools) =>
                  call.bcalls = call.fetched + (IF BackendError(call) THEN 1 ELSE 0)
            /\ (BackendError(call) /\ call.tool \notin PagedTools) => call.bcalls = 1

(* An add_item_to_container has ended with the one failure of its one      *)
(* CreateItem                                                              *)
C17_Witness ==
    \E c \in Finished :
        /\ calls[c].tool = "add_item_to_container"
        /\ calls[c].err = Wrap("error adding item to container", Forbidden)
        /\ calls[c].bcalls = 1

----------------------------------------------------------------------------
(* Connection resolution *)

(* The invocations of the tools whose input embeds ConnectionConfig *)
Configured == {c \in Running : calls[c].tool \in ConnectionConfigTools}

(* The invocation asks for the emulator: its tool knows the mode and the   *)
(* input sets it                                                           *)
EmulatorMode(call) == call.tool \in ConnectionConfigTools /\ call.input.useEmulator

(* The invocations that hold a client *)
Connected == {c \in Running : calls[c].pc # "done"}

(* C18: the validation of the connection fails with "account name is       *)
(* required" exactly when useEmulator is false and the account is empty;   *)
(* with useEmulator true it passes whatever the account and the endpoint   *)
(* override; and the failure comes before any client is built or backend   *)
(* called.                                                                 *)
C18_ValidateConnection ==
    \A c \in Configured :
        LET call == calls[c]
        IN  /\ call.err.msg = "account name is required"
                  <=> (~call.input.useEmulator /\ call.input.account = "")
            /\ call.err.msg = "account name is required" =>
                  /\ call.pc = "done"
                  /\ call.err.cause = NoCause
                  /\ call.resolves = 0
                  /\ call.bcalls = 0

(* A list_databases for the emulator, without account and with an endpoint *)
(* override, has listed the databases                                      *)
C18_Witness ==
    \E c \in Finished :
        /\ calls[c].tool = "list_databases"
        /\ calls[c].input.useEmulator
        /\ calls[c].input.account = ""
        /\ calls[c].input.emulatorEndpoint # ""
        /\ calls[c].err = NoErr
        /\ calls[c].result.list # <<>>

(* C19: the endpoint of the client of an invocation is decided by its      *)
(* connection alone: for the emulator the endpoint override when there is  *)
(* one and the default emulator endpoint otherwise, whatever the account;  *)
(* for the service https://<account>.documents.azure.com:443/, whatever    *)
(* the override.                                                           *)
C19_EndpointResolution ==
    \A c \in Connected :
        LET call == calls[c]
            input == call.input
        IN  call.client.endpoint =
                IF EmulatorMode(call)
                THEN IF input.emulatorEndpoint # "" THEN <<input.emulatorEndpoint>>
                     ELSE DefaultEmulatorEndpoint
                ELSE <<"https://", input.account, ".documents.azure.com:443/">>

(* A list_databases for the service holds the client of the account though *)
(* its input names an endpoint override                                    *)
C19_Witness ==
    \E c \in Connected :
        /\ calls[c].tool = "list_databases"
        /\ ~calls[c].input.useEmulator
        /\ calls[c].input.emulatorEndpoint # ""
        /\ calls[c].client.endpoint = <<"https://", "acct", ".documents.azure.com:443/">>

(* The client resolution of the invocation failed *)
ResolutionFailed(call) ==
    /\ call.pc = "done"
    /\ call.resolves = 1
    /\ call.bcalls = 0
    /\ call.err # NoErr
    /\ call.err.cause = NoCause

(* C20: for the service the credential follows COSMOSDB_ACCOUNT_KEY: with  *)
(* a key the client is built with the key and the identity chain is not    *)
(* consulted, without one it is built with the identity of the             *)
(* environment; when the credential or the client cannot be built the      *)
(* invocation ends with that error, without a client and without a backend *)
(* call.                                                                   *)
C20_CredentialOrder ==
    \A c \in Running :
        LET call == calls[c]
        IN  (call.resolves = 1 /\ ~EmulatorMode(call)) =>
                /\ call.pc # "done" =>
                      call.client.credential =
                          IF call.accountKey # "" THEN "key" ELSE "identity"
                /\ ResolutionFailed(call) =>
                      /\ call.client = NoClient
                      /\ call.err.msg \in
                            IF call.accountKey # ""
                            THEN {"error creating key credential",
                                  "error creating Cosmos client"}
                            ELSE {"error creating credential",
                                  "error creating Cosmos client"}

(* With a key in the environment a read_item holds a client built with the *)
(* key                                                                     *)
C20_Witness ==
    \E c \in Connected :
        /\ calls[c].tool = "read_item"
        /\ calls[c].accountKey = "secret"
        /\ calls[c].client.credential = "key"


(* The request d was sent after the answer to c was in *)
After(c, d) == calls[c].pc = "done" /\ calls[d].id > calls[c].id /\ calls[c].id > 0

SameContainer(c, d) ==
    /\ calls[d].input.account = calls[c].input.account
    /\ calls[d].input.database = calls[c].input.database
    /\ calls[d].input.container = calls[c].input.container

(* c added a document and d then read it by its id and partition key *)
ReadsBack(c, d) ==
    /\ calls[c].tool = "add_item_to_container" /\ calls[c].err = NoErr
    /\ calls[d].tool = "read_item" /\ calls[d].pc = "done"
    /\ After(c, d) /\ SameContainer(c, d)
    /\ calls[d].input.partitionKey = calls[c].input.partitionKey
    /\ calls[d].input.itemID = calls[c].input.item.id

(* C21: a read_item that follows a successful add_item_to_container with    *)
(* the same account, database, container, item id and partition key, with   *)
(* no write in between, and that the service answers, succeeds and returns  *)
(* a payload with every field of the submitted document at the same value.  *)
C21_ReadAfterAdd ==
    \A c \in DOMAIN calls : \A d \in DOMAIN calls :
        (ReadsBack(c, d) /\ calls[d].bcalls = 1 /\ calls[d].err.cause \notin Failures)
            => /\ calls[d].err = NoErr
               /\ calls[d].result.item.kind = "doc"
               /\ calls[d].result.item.id = calls[c].input.item.id
               /\ calls[d].result.item.val = calls[c].input.item.val

C21_Witness ==
    \E c \in DOMAIN calls : \E d \in DOMAIN calls :
        /\ ReadsBack(c, d)
        /\ calls[d].err = NoErr
        /\ calls[d].result.item = Doc(<<"i1">>, "v2")
        /\ Len(items) = 2

(* c added a document to a partition that holds no other and d then ran    *)
(* "SELECT * FROM c" on that partition                                      *)
QueriesBack(c, d) ==
    /\ calls[c].tool = "add_item_to_container" /\ calls[c].err = NoErr
    /\ calls[d].tool = "execute_query" /\ calls[d].pc = "done"
    /\ After(c, d) /\ SameContainer(c, d)
    /\ calls[d].input.partitionKey = calls[c].input.partitionKey
    /\ calls[d].input.query = "SELECT * FROM c"
    /\ Len(Stored(calls[c].input.database, calls[c].input.container,
                  calls[c].input.partitionKey)) = 1

(* C22: after one item is written under a partition key that holds no other *)
(* item, a successful execute_query "SELECT * FROM c" scoped to that        *)
(* partition key returns a list of exactly one element, the written         *)
(* document unchanged, and no item of another partition.                    *)
C22_QueryAfterAdd ==
    \A c \in DOMAIN calls : \A d \in DOMAIN calls :
        (QueriesBack(c, d) /\ calls[d].err = NoErr)
            => calls[d].result.list = <<calls[c].input.item>>

C22_Witness ==
    \E c \in DOMAIN calls : \E d \in DOMAIN calls :
        /\ QueriesBack(c, d)
        /\ calls[d].err = NoErr
        /\ calls[d].result.list = <<Doc(<<"i2">>, "v1")>>
        /\ Len(items) = 2


(* C23: execute_query treats partitionKey as optional and the query text as *)
(* opaque: an empty partitionKey is never a validation error and makes the  *)
(* pager with the empty (cross-partition) partition key, a non-empty one    *)
(* scopes the pager to that value, and the pager is made with the query     *)
(* string of the input; the answer lists what the service selects for that  *)
(* text in that scope.                                                       *)
C23_PartitionKeyOptionalQueryOpaque ==
    \A c \in DOMAIN calls :
        LET call == calls[c]
            input == call.input
            key == IF input.partitionKey = "" THEN EmptyPartitionKey
                   ELSE <<input.partitionKey>>
        IN  call.tool = "execute_query" =>
              /\ (call.pc = "done" /\ call.resolves = 0 /\ call.err # NoErr)
                    => \E f \in {"account", "database", "container", "query"} :
                           input[f] = ""
              /\ (call.pc = "QueryItems.NextPage" \/ call.bcalls > 0)
                    => /\ call.pager.query = input.query
                       /\ call.pager.partitionKey = key
              /\ (call.pc = "done" /\ call.err = NoErr)
                    => call.result.list =
                          Selected(input.query,
                                   QueryItems(input.database, input.container, key))

C23_Witness ==
    \E c \in DOMAIN calls :
        /\ calls[c].tool = "execute_query"
        /\ calls[c].pc = "done" /\ calls[c].err = NoErr
        /\ calls[c].input.partitionKey = ""
        /\ calls[c].input.query = "SELECT * FROM c"
        /\ Len(calls[c].result.list) = 2
        /\ items[1].pk # items[2].pk


(* C24: every backend failure during a tool's CRUD, list, query or batch   *)
(* call is returned as an error that wraps the backend error with the name *)
(* of the failed operation: no backend error is returned without operation *)
(* context.                                                                 *)
C24_BackendErrorsNameTheOperation ==
    \A c \in Finished :
        BackendError(calls[c]) => calls[c].err.msg # ""


(* The handle the resolution makes for the account of the invocation *)
OwnEndpoint(call) == <<"https://", call.input.account, ".documents.azure.com:443/">>

(* C25: concurrent invocations are independent: a step of an invocation    *)
(* leaves the other invocations as they are, every backend operation of an *)
(* invocation goes through the client resolved for the connection its own  *)
(* input names, and what a successful invocation wrote or returns is what  *)
(* its own input and the state of the backend give.                        *)
C25_InvocationsIndependent ==
    [][\A c \in DOMAIN calls :
          LET call == calls[c]
              input == call.input
          IN  calls'[c] # call =>
                /\ \A d \in DOMAIN calls \ {c} : calls'[d] = calls[d]
                /\ calls'[c].bcalls > call.bcalls
                      => call.client.endpoint = OwnEndpoint(call)
                /\ (call.pc = "CreateItem" /\ calls'[c].err = NoErr)
                      => /\ items' = Append(items,
                                            StoredItem(input.database, input.container,
                                                       input.partitionKey, input.item,
                                                       call.id))
                         /\ calls'[c].result.account = input.account
                /\ (call.pc = "ReadItem" /\ calls'[c].err = NoErr)
                      => \E r \in Range(Stored(input.database, input.container,
                                               input.partitionKey)) :
                             /\ r.id = input.itemID
                             /\ calls'[c].result.item = TextOf(r)]_vars

(* An invocation for one account has written its item while an invocation  *)
(* for the other account, which began before it, holds its own client      *)
C25_Witness ==
    \E c \in DOMAIN calls : \E d \in DOMAIN calls :
        /\ calls[c].tool = "add_item_to_container"
        /\ calls[c].pc = "done" /\ calls[c].err = NoErr
        /\ calls[c].input.account = "acct2"
        /\ calls[d].pc = "ReadItem"
        /\ calls[d].input.account = "acct"
        /\ calls[d].id < calls[c].id
        /\ calls[d].client.endpoint = OwnEndpoint(calls[d])


EchoAccount == {"list_databases", "create_database", "list_containers",
                "create_container", "add_item_to_container", "batch_create_items"}
EchoDatabase == EchoAccount \ {"list_databases"}
EchoContainer == {"create_container", "add_item_to_container", "batch_create_items"}

(* C26: every successful result of create_database, list_containers,        *)
(* create_container, add_item_to_container and batch_create_items (and of   *)
(* list_databases, for the account) echoes the account, database and        *)
(* container identifiers exactly as the input gives them.                   *)
C26_ResultEchoesIdentifiers ==
    \A c \in Finished :
        LET call == calls[c]
        IN  call.err = NoErr =>
              /\ call.tool \in EchoAccount => call.result.account = call.input.account
              /\ call.tool \in EchoDatabase => call.result.database = call.input.database
              /\ call.tool \in EchoContainer => call.result.container = call.input.container

(* A database has been created on the emulator for an input without account *)
C26_Witness ==
    \E c \in Finished :
        /\ calls[c].tool = "create_database"
        /\ calls[c].err = NoErr
        /\ calls[c].input.useEmulator
        /\ calls[c].input.account = ""
        /\ calls[c].result.account = ""
        /\ calls[c].result.database = "db2"


(* The server holds, or held until it failed, an HTTP listener *)
Listens == server.addr # NoAddr

(* C27: when COSMOSDB_MCP_SERVER_MODE is "http" the server listens on port *)
(* 9090 by default and on the port given by the PORT environment variable  *)
(* when it is set; for any other value of the mode the server runs on      *)
(* stdio and opens no HTTP listener.                                        *)
C27_ServerModeAndPort ==
    LET mode == Getenv("COSMOSDB_MCP_SERVER_MODE")
    IN  /\ (mode = "http" /\ server.pc # "main")
              => /\ server.pc \in {"http.ListenAndServe", "log.Fatal"}
                 /\ server.addr = <<":", IF Getenv("PORT") = "" THEN "9090"
                                          ELSE Getenv("PORT")>>
        /\ mode # "http"
              => /\ ~Listens
                 /\ server.pc \in {"main", "server.Run", "exit", "log.Fatalf"}


(* C28: read_container_metadata succeeds whenever validation, client       *)
(* resolution and the container read succeed, whatever the outcome of the  *)
(* throughput read: a failure of that read is reported in the throughput   *)
(* object only, never as the error of the tool; whereas a failure of the   *)
(* container read always fails the call, and no throughput read is then    *)
(* attempted.                                                               *)
C28_ThroughputReadNeverFailsTheTool ==
    [][\A c \in DOMAIN calls :
          LET call == calls[c]
              after == calls'[c]
          IN  (call.tool = "read_container_metadata" /\ after.bcalls > call.bcalls) =>
                /\ call.pc = "Container.ReadThroughput"
                      => /\ call.bcalls = 1
                         /\ after.pc = "done"
                         /\ after.err = NoErr
                         /\ after.result.metadata
                         /\ after.throughputResp.err # NoCause
                               => after.result.throughput.type
                                      \in {"shared", "unknown", "error"}
                /\ call.pc = "Container.Read"
                      => \/ /\ after.pc = "Container.ReadThroughput"
                            /\ after.err = NoErr
                         \/ /\ after.pc = "done"
                            /\ after.err.cause # NoCause
                            /\ after.result = ZeroResult
                            /\ after.bcalls = 1
                            /\ after.throughputResp = IdleCall.throughputResp]_vars

(* The metadata of a container has been returned though the read of its    *)
(* throughput was cut by the network                                        *)
C28_Witness ==
    \E c \in Finished :
        /\ calls[c].tool = "read_container_metadata"
        /\ calls[c].err = NoErr
        /\ calls[c].result.metadata
        /\ calls[c].bcalls = 2
        /\ calls[c].throughputResp.err = OtherError("connection reset")
        /\ calls[c].result.throughput.type = "error"


WriteTools == {"create_database", "create_container", "add_item_to_container",
               "batch_create_items"}

(* The query of the invocation matches no document of its scope *)
NothingSelected(call) ==
    /\ call.tool = "execute_query"
    /\ Selected(call.input.query,
                QueryItems(call.input.database, call.input.container,
                           NewQueryItemsPager(call.input).partitionKey)) = <<>>

(* C29, as the specification states it: every handler returns exactly one  *)
(* of an error with a zero-valued result, or no error with a populated     *)
(* result.                                                                  *)
C29_ErrorOrPopulatedResult ==
    \A c \in Finished :
        \/ calls[c].err # NoErr /\ calls[c].result = ZeroResult
        \/ calls[c].err = NoErr /\ calls[c].result # ZeroResult

(* C29, amended: every handler returns an error with a zero-valued result, *)
(* or no error with a result that is populated unless it is the answer to  *)
(* a query that matches nothing; a success message or payload is never     *)
(* returned alongside an error, and an invocation of a writing tool that   *)
(* reports success has written to the backend.                             *)
C29_ErrorOrAnswer ==
    \A c \in Finished :
        LET call == calls[c]
        IN  /\ call.err # NoErr => call.result = ZeroResult
            /\ call.err = NoErr => (call.result # ZeroResult \/ NothingSelected(call))
            /\ (call.tool \in WriteTools /\ call.err = NoErr)
                  => CreatedBy(call.id) # {}

(* A query on a partition without items has succeeded with the zero result *)
(* while the container holds an item of another partition                  *)
C29_Witness ==
    \E c \in Finished :
        /\ calls[c].tool = "execute_query"
        /\ calls[c].err = NoErr
        /\ calls[c].result = ZeroResult
        /\ calls[c].input.partitionKey = "pk2"
        /\ calls[c].input.query = "SELECT * FROM c"
        /\ items # <<>>


(* C30: create_container issues exactly one backend create-container call  *)
(* per validated invocation that has its client: none before the call, one *)
(* with it; the container it creates has manual throughput of the given    *)
(* value when the input has a throughput and no throughput options when it *)
(* has none, and its id and partition key path are the container and       *)
(* partitionKeyPath of the input.                                          *)
C30_OneCreateContainerCall ==
    [][\A c \in DOMAIN calls :
          LET call == calls[c]
              input == call.input
              after == calls'[c]
          IN  /\ (call.pc = "idle" /\ after.tool = "create_container")
                    => /\ after.bcalls = 0
                       /\ after.pc = "CreateContainer"
                             <=> (CreateContainerValidate(after.input) = ""
                                  /\ after.err = NoErr)
              /\ (call.pc = "CreateContainer" /\ after.pc # call.pc)
                    => /\ call.bcalls = 0 /\ after.bcalls = 1
                       /\ after.pc = "done"
                       /\ IF after.err = NoErr
                          THEN containers' =
                                  Append(containers,
                                         [db |-> input.database, name |-> input.container,
                                          path |-> input.partitionKeyPath,
                                          tp |-> IF input.throughput.set
                                                 THEN Throughput(input.throughput.v)
                                                 ELSE NoThroughput,
                                          by |-> call.id])
                          ELSE containers' = containers]_vars

(* A container has been created with the throughput its input asked for *)
C30_Witness ==
    \E c \in Finished :
        /\ calls[c].tool = "create_container"
        /\ calls[c].err = NoErr
        /\ calls[c].bcalls = 1
        /\ calls[c].input.throughput = Throughput(400)
        /\ \E r \in Range(containers) :
               /\ r.by = calls[c].id
               /\ r.name = calls[c].input.container
               /\ r.path = "/id"
               /\ r.tp = Throughput(400)

====
